---- MODULE Spec2Model ----
(***************************************************************************)
(* Connection / transaction lifecycle of the Yugabytedb dbt adapter        *)
(* (dbt/adapters/yugabytedb/connections.py).                               *)
(*                                                                         *)
(* One thread connection is modelled: its state, its transaction_open     *)
(* flag and its credentials.  Every operation of the connection manager   *)
(* is an operator over the connection and the outcomes the environment    *)
(* (driver, server) produces for the calls the operation makes; the       *)
(* actions draw those outcomes from small sets.  Methods the manager      *)
(* inherits from SQLConnectionManager (retry_connection, add_query,       *)
(* rollback_if_open, close) are modelled at the place the adapter calls   *)
(* them.                                                                   *)
(*                                                                         *)
(* The materialized-view index diff of YugabytedbRelation                  *)
(* (dbt/adapters/yugabytedb/relation.py) is modelled beside it: diff holds *)
(* the two index sets compared and what the comparison returned.          *)
(***************************************************************************)
EXTENDS Integers, Sequences, FiniteSets, TLC

VARIABLES connection, credentials, last, active, diff

vars == <<connection, credentials, last, active, diff>>

(***************************************************************************)
(* Bounds.                                                                 *)
(***************************************************************************)
MaxRetries == 2
MaxBackoffRetries == 3
MaxMsgLen == 3
MaxKeepalivesIdle == 2
MaxIndexColumns == 2

(***************************************************************************)
(* Error messages: strings over two whitespace characters and one        *)
(* non-whitespace character.                                               *)
(***************************************************************************)
Whitespace == {" ", "\n"}
Chars == Whitespace \cup {"e"}

SeqsUpTo(S, n) == UNION {[1..k -> S] : k \in 0..n}

Msgs == SeqsUpTo(Chars, MaxMsgLen)

\* str.strip(): drop leading and trailing whitespace, keep inner whitespace
RECURSIVE lstrip(_)
lstrip(s) ==
  IF s = <<>> THEN s
  ELSE IF Head(s) \in Whitespace THEN lstrip(Tail(s)) ELSE s

RECURSIVE rstrip(_)
rstrip(s) ==
  IF s = <<>> THEN s
  ELSE IF s[Len(s)] \in Whitespace THEN rstrip(SubSeq(s, 1, Len(s) - 1)) ELSE s

strip(s) == rstrip(lstrip(s))

(***************************************************************************)
(* Exception classes.  Outcome kinds of a driver call and of a unit of    *)
(* work; error kinds an operation raises to its caller.                   *)
(***************************************************************************)
NoError == "none"

\* dbt.exceptions: FailedToConnectError < DbtDatabaseError < DbtRuntimeError
DbtRuntimeErrorKinds == {"DbtRuntimeError", "DbtDatabaseError", "FailedToConnectError"}

\* outcome of one psycopg2 connect() attempt (the connect closure of open)
ConnectOutcomes == {"ok", "OperationalError", "Error"}

\* message of a failed connect attempt
ConnectMsg == <<"e">>

\* message of the error raised by a failed rollback, and of the errors a
\* dead handle raises
DriverMsg == <<"e", "e">>

NoWork == [kind |-> "ok", msg |-> <<>>]

\* outcome of one SQL statement the manager itself sends (BEGIN, COMMIT,
\* the termination statement): done, or a server-reported error
StatementMsgs == {<<"e">>, <<"e", "\n">>}

StatementOutcomes ==
  {NoWork} \cup [kind : {"DatabaseError"}, msg : StatementMsgs]

\* outcome of a unit of work run inside exception_handler: done, a
\* psycopg2.DatabaseError, an error of the adapter's own kinds, any other
\* exception
WorkOutcomes ==
  {NoWork} \cup [kind : {"DatabaseError"}, msg : Msgs]
           \cup [kind : {"DbtRuntimeError", "DbtDatabaseError", "Exception"},
                 msg : StatementMsgs]

\* outcome of the rollback rollback_if_open attempts: done; failed inside the
\* driver and logged by the base class; failed with psycopg2.Error ("raise");
\* failed with an error of another class ("raise Exception"), such as the
\* FailedToConnectError of a handle that could not be resolved
RollbackOutcomes == {"ok", "swallowed", "raise", "raise Exception"}

(***************************************************************************)
(* Result of an operation: the connection after it, the error it raises,  *)
(* the SQL it handed to add_query, the connect attempts and sleeps it     *)
(* made, what the rollback attempt did, the begin() calls that succeeded  *)
(* inside it, the errors it caught and dropped, and the keyword options   *)
(* of each psycopg2.connect call it made.                                  *)
(***************************************************************************)
Result(conn, err, msg) ==
  [conn |-> conn, err |-> err, msg |-> msg, stmts |-> <<>>,
   attempts |-> 0, sleeps |-> <<>>, rollback |-> "none", begins |-> 0,
   swallowed |-> <<>>, connects |-> <<>>]

(***************************************************************************)
(* open                                                                    *)
(***************************************************************************)
attempt_backoff(attempt) == attempt

exponential_backoff(attempt) == attempt * attempt

retryable_exceptions_all == ConnectOutcomes \ {"ok"}

retryable_exceptions == {"OperationalError"}

retry_limit_minus_one(creds) == creds.retries - 1

retry_limit(creds) == creds.retries

\* SQLConnectionManager.retry_connection as open calls it: retry_timeout is
\* exponential_backoff, evaluated with the number of attempts made so far
RECURSIVE retry_connection(_, _, _, _, _)
retry_connection(conn, script, retryable, limit, attempts) ==
  LET outcome == script[attempts + 1]
      timeout == exponential_backoff(attempts)
      failed  == [Result([conn EXCEPT !.state = "fail", !.handle = "none"],
                         "FailedToConnectError", ConnectMsg)
                    EXCEPT !.attempts = attempts + 1]
  IN IF outcome = "ok"
     THEN [Result([conn EXCEPT !.state = "open", !.handle = "connection"], NoError, <<>>)
             EXCEPT !.attempts = attempts + 1]
     ELSE IF outcome \in retryable
     THEN IF limit <= 0
          THEN failed
          ELSE LET r == retry_connection(conn, script, retryable, limit - 1, attempts + 1)
               IN [r EXCEPT !.sleeps = <<timeout>> \o @]
     ELSE failed

kwargs_keepalive_always(creds) ==
  [k \in {"keepalives_idle", "application_name"} |->
     IF k = "keepalives_idle" THEN creds.keepalives_idle ELSE creds.application_name]

\* the optional keyword arguments open builds for psycopg2.connect, as a
\* function from their names; the credentials modelled leave search_path and
\* the ssl options unset
kwargs(creds) ==
  LET keys == (IF creds.keepalives_idle # 0 THEN {"keepalives_idle"} ELSE {})
              \cup (IF creds.application_name # "" THEN {"application_name"} ELSE {})
  IN [k \in keys |->
        IF k = "keepalives_idle" THEN creds.keepalives_idle ELSE creds.application_name]

\* every attempt calls the same connect closure, with the same kwargs
Connects(r, creds) == [r EXCEPT !.connects = [i \in 1..r.attempts |-> kwargs(creds)]]

open_no_guard(conn, creds, script) ==
  Connects(retry_connection(conn, script, retryable_exceptions, retry_limit(creds), 0),
           creds)

open(conn, creds, script) ==
  IF conn.state = "open"
  THEN Result(conn, NoError, <<>>)
  ELSE Connects(retry_connection(conn, script, retryable_exceptions, retry_limit(creds), 0),
                creds)

(***************************************************************************)
(* exception_handler                                                       *)
(***************************************************************************)
\* reading connection.handle: a lazy handle is resolved by open, which
\* leaves a driver connection, or None and FailedToConnectError
handle(conn, creds, script) ==
  IF conn.handle = "lazy" THEN open(conn, creds, script)
  ELSE Result(conn, NoError, <<>>)

\* the handle is a driver connection, live or closed, and not None: close
\* keeps the handle it closes, a failed open leaves None
HandleTruthy(conn) == conn.handle # "none"

\* SQLConnectionManager.rollback_if_open as exception_handler calls it: it
\* reads connection.handle, then transaction_open
\* h is the outcome of reading the handle
rollback_if_handle(h, rb) ==
  IF h.err # NoError THEN h
  ELSE IF HandleTruthy(h.conn) /\ h.conn.transaction_open
  THEN IF rb = "raise"
       THEN [h EXCEPT !.err = "psycopg2.Error", !.msg = DriverMsg, !.rollback = rb]
       ELSE IF rb = "raise Exception"
       THEN [h EXCEPT !.err = "Exception", !.msg = DriverMsg, !.rollback = rb]
       ELSE [h EXCEPT !.conn.transaction_open = FALSE, !.rollback = rb]
  ELSE h

rollback_if_open(conn, creds, script, rb) ==
  rollback_if_handle(handle(conn, creds, script), rb)

\* str(e).strip()
database_error_message(msg) == strip(msg)

exception_handler_always_wraps(conn, creds, work, script, rb) ==
  LET r == rollback_if_open(conn, creds, script, rb)
  IN IF work.kind = "ok" THEN Result(conn, NoError, <<>>)
     ELSE IF work.kind = "DatabaseError"
     THEN IF r.err \notin {NoError, "psycopg2.Error"} THEN r
          ELSE [r EXCEPT !.err = "DbtDatabaseError",
                         !.msg = database_error_message(work.msg),
                         !.swallowed = IF r.err # NoError THEN <<r.err>> ELSE <<>>]
     ELSE IF r.err # NoError THEN r
     ELSE [r EXCEPT !.err = "DbtRuntimeError", !.msg = work.msg]

exception_handler(conn, creds, work, script, rb) ==
  LET r == rollback_if_open(conn, creds, script, rb)
  IN IF work.kind = "ok" THEN Result(conn, NoError, <<>>)
     ELSE IF work.kind = "DatabaseError"
     THEN \* except psycopg2.DatabaseError: a psycopg2.Error of the rollback is
          \* dropped, any other error of it propagates
          IF r.err \notin {NoError, "psycopg2.Error"} THEN r
          ELSE [r EXCEPT !.err = "DbtDatabaseError",
                         !.msg = database_error_message(work.msg),
                         !.swallowed = IF r.err # NoError THEN <<r.err>> ELSE <<>>]
     ELSE \* except Exception: the rollback is not guarded
          IF r.err # NoError THEN r
          ELSE IF work.kind \in DbtRuntimeErrorKinds
          THEN [r EXCEPT !.err = work.kind, !.msg = work.msg]
          ELSE [r EXCEPT !.err = "DbtRuntimeError", !.msg = work.msg]

(***************************************************************************)
(* Statements.  SQLConnectionManager.add_query(sql, auto_begin=False), as *)
(* add_begin_query and add_commit_query call it: inside exception_handler *)
(* it takes a cursor from connection.handle, which opens a lazy handle,   *)
(* and executes the statement.                                             *)
(***************************************************************************)
\* what the body of add_query raises
Work(h, q) ==
  IF h.err # NoError THEN [kind |-> h.err, msg |-> h.msg]
  ELSE IF h.conn.state = "open" THEN q
  ELSE [kind |-> "Exception", msg |-> DriverMsg]

add_query(conn, creds, sql, q, script, rb) ==
  LET h == handle(conn, creds, script)
      r == exception_handler(h.conn, creds, Work(h, q), script, rb)
  IN [r EXCEPT !.stmts = <<sql>>, !.attempts = h.attempts + @, !.sleeps = h.sleeps \o @,
               !.connects = h.connects \o @]

\* r1 then r2: the effects of two calls made one after the other
Then(r1, r2) ==
  [r2 EXCEPT !.stmts = r1.stmts \o @,
             !.attempts = r1.attempts + @,
             !.sleeps = r1.sleeps \o @,
             !.rollback = IF @ = "none" THEN r1.rollback ELSE @,
             !.begins = r1.begins + @,
             !.swallowed = r1.swallowed \o @,
             !.connects = r1.connects \o @]

\* the error of r is caught and dropped
Swallow(r) ==
  IF r.err = NoError THEN r
  ELSE [r EXCEPT !.err = NoError, !.msg = <<>>, !.swallowed = @ \o <<r.err>>]

(***************************************************************************)
(* begin, commit                                                           *)
(***************************************************************************)
begin_no_guard(conn, creds, q1, q2, script, rb) ==
  IF creds.enable_transaction
  THEN LET c == Swallow(add_query(conn, creds, "COMMIT", q1, script, rb))
           b == Then(c, add_query(c.conn, creds, "BEGIN", q2, script, rb))
       IN IF b.err # NoError THEN b
          ELSE [b EXCEPT !.conn.transaction_open = TRUE, !.begins = 1]
  ELSE [Result([conn EXCEPT !.transaction_open = TRUE], NoError, <<>>) EXCEPT !.begins = 1]

begin_commit_unguarded(conn, creds, q1, q2, script, rb) ==
  IF conn.transaction_open = TRUE
  THEN Result(conn, "DbtInternalError", <<>>)
  ELSE IF creds.enable_transaction
  THEN LET c == add_query(conn, creds, "COMMIT", q1, script, rb)
           b == Then(c, add_query(c.conn, creds, "BEGIN", q2, script, rb))
       IN IF c.err # NoError THEN c
          ELSE IF b.err # NoError THEN b
          ELSE [b EXCEPT !.conn.transaction_open = TRUE, !.begins = 1]
  ELSE [Result([conn EXCEPT !.transaction_open = TRUE], NoError, <<>>) EXCEPT !.begins = 1]

begin_always_sql(conn, creds, q1, q2, script, rb) ==
  IF conn.transaction_open = TRUE
  THEN Result(conn, "DbtInternalError", <<>>)
  ELSE LET c == Swallow(add_query(conn, creds, "COMMIT", q1, script, rb))
           b == Then(c, add_query(c.conn, creds, "BEGIN", q2, script, rb))
       IN IF b.err # NoError THEN b
          ELSE [b EXCEPT !.conn.transaction_open = TRUE, !.begins = 1]

begin(conn, creds, q1, q2, script, rb) ==
  IF conn.transaction_open = TRUE
  THEN Result(conn, "DbtInternalError", <<>>)
  ELSE IF creds.enable_transaction
  THEN LET c == Swallow(add_query(conn, creds, "COMMIT", q1, script, rb))
           b == Then(c, add_query(c.conn, creds, "BEGIN", q2, script, rb))
       IN IF b.err # NoError THEN b
          ELSE [b EXCEPT !.conn.transaction_open = TRUE, !.begins = 1]
  ELSE [Result([conn EXCEPT !.transaction_open = TRUE], NoError, <<>>) EXCEPT !.begins = 1]

commit_no_guard(conn, creds, q, script, rb) ==
  IF creds.enable_transaction
  THEN LET c == add_query(conn, creds, "COMMIT", q, script, rb)
       IN IF c.err # NoError THEN c
          ELSE [c EXCEPT !.conn.transaction_open = FALSE]
  ELSE Result([conn EXCEPT !.transaction_open = FALSE], NoError, <<>>)

commit_reset_first(conn, creds, q, script, rb) ==
  IF conn.transaction_open = FALSE
  THEN Result(conn, "DbtInternalError", <<>>)
  ELSE IF creds.enable_transaction
  THEN add_query([conn EXCEPT !.transaction_open = FALSE], creds, "COMMIT", q, script, rb)
  ELSE Result([conn EXCEPT !.transaction_open = FALSE], NoError, <<>>)

commit(conn, creds, q, script, rb) ==
  IF conn.transaction_open = FALSE
  THEN Result(conn, "DbtInternalError", <<>>)
  ELSE IF creds.enable_transaction
  THEN LET c == add_query(conn, creds, "COMMIT", q, script, rb)
       IN IF c.err # NoError THEN c
          ELSE [c EXCEPT !.conn.transaction_open = FALSE]
  ELSE Result([conn EXCEPT !.transaction_open = FALSE], NoError, <<>>)

(***************************************************************************)
(* cancel, close                                                           *)
(***************************************************************************)
\* outcome of connection.handle.get_backend_pid() on the connection to cancel
PidOutcomes == {"pid", "already closed", "InterfaceError", "Exception"}

\* self.add_query(sql) with auto_begin left at its default: on the thread
\* connection, begin() first when no transaction is open, then the statement
cancel_unswallowed(conn, creds, pid, q1, q2, q3, script, rb) ==
  IF pid = "already closed" THEN Result(conn, NoError, <<>>)
  ELSE IF pid # "pid" THEN Result(conn, pid, DriverMsg)
  ELSE LET b == IF conn.transaction_open = FALSE
                THEN begin(conn, creds, q1, q2, script, rb)
                ELSE Result(conn, NoError, <<>>)
       IN IF b.err # NoError THEN b
          ELSE Then(b, add_query(b.conn, creds, "TERMINATE", q3, script, rb))

cancel(conn, creds, pid, q1, q2, q3, script, rb) ==
  IF pid = "already closed" THEN Result(conn, NoError, <<>>)
  ELSE IF pid # "pid" THEN Result(conn, pid, DriverMsg)
  ELSE LET b == IF conn.transaction_open = FALSE
                THEN begin(conn, creds, q1, q2, script, rb)
                ELSE Result(conn, NoError, <<>>)
       IN IF b.err # NoError THEN Swallow(b)
          ELSE Swallow(Then(b, add_query(b.conn, creds, "TERMINATE", q3, script, rb)))

\* outcome of the rollback close makes on the handle: done, or failed and
\* logged
CloseRollbackOutcomes == {"ok", "swallowed"}

\* SQLConnectionManager.close: the handle is rolled back when a transaction
\* is open and the handle is not None, then closed and kept
close(conn, rb) ==
  IF conn.state \in {"closed", "init"} THEN Result(conn, NoError, <<>>)
  ELSE IF conn.transaction_open /\ HandleTruthy(conn)
  THEN [Result([conn EXCEPT !.state = "closed", !.transaction_open = FALSE], NoError, <<>>)
          EXCEPT !.rollback = rb]
  ELSE Result([conn EXCEPT !.state = "closed"], NoError, <<>>)

(***************************************************************************)
(* Materialized-view index diff (relation.py)                              *)
(***************************************************************************)
IndexColumns == 1..MaxIndexColumns

\* index configs of one snapshot: the indexes read from the database carry
\* their name, those of the model carry none
IndexConfigs(name) ==
  [name : {name}, columns : {<<c>> : c \in IndexColumns}, unique : BOOLEAN]

ExistingIndexConfigs == IndexConfigs("db")

NewIndexConfigs == IndexConfigs("")

\* equality of index configs: every property but the name
same_index(a, b) == a.columns = b.columns /\ a.unique = b.unique

\* frozenset.difference under that equality
difference(A, B) == {a \in A : \A b \in B : ~same_index(a, b)}

IndexConfigChange(action, index) == [action |-> action, context |-> index]

get_index_config_changes_swapped(existing_indexes, new_indexes) ==
  LET drop_changes ==
        {IndexConfigChange("drop", index) : index \in difference(new_indexes, existing_indexes)}
      create_changes ==
        {IndexConfigChange("create", index) : index \in difference(existing_indexes, new_indexes)}
  IN drop_changes \cup create_changes

get_index_config_changes_rebuild(existing_indexes, new_indexes) ==
  {IndexConfigChange("drop", index) : index \in existing_indexes}
    \cup {IndexConfigChange("create", index) : index \in new_indexes}

get_index_config_changes_create_only(existing_indexes, new_indexes) ==
  {IndexConfigChange("create", index) : index \in difference(new_indexes, existing_indexes)}

get_index_config_changes(existing_indexes, new_indexes) ==
  LET drop_changes ==
        {IndexConfigChange("drop", index) : index \in difference(existing_indexes, new_indexes)}
      create_changes ==
        {IndexConfigChange("create", index) : index \in difference(new_indexes, existing_indexes)}
  IN drop_changes \cup create_changes

\* MaterializedViewConfigChangeCollection.has_changes
has_changes(collection) == collection.indexes # {}

\* the value returned when there is nothing to change (None)
Absent == [present |-> FALSE, indexes |-> {}]

get_materialized_view_config_change_collection_always(existing, new) ==
  [present |-> TRUE, indexes |-> get_index_config_changes(existing.indexes, new.indexes)]

get_materialized_view_config_change_collection(existing, new) ==
  LET config_change_collection ==
        [indexes |-> get_index_config_changes(existing.indexes, new.indexes)]
  IN IF has_changes(config_change_collection)
     THEN [present |-> TRUE, indexes |-> config_change_collection.indexes]
     ELSE Absent

(***************************************************************************)
(* State machine                                                           *)
(***************************************************************************)
\* outcomes of the connect attempts to come, one more than open can make
Scripts == [1..(credentials.retries + 2) -> ConnectOutcomes]

\* the outcomes of the connect attempts an operation made through a lazy handle
Consumed(script, r) == SubSeq(script, 1, r.attempts)

Record(op, pre, r, script, work) ==
  [op |-> op, pre |-> pre, err |-> r.err, msg |-> r.msg, stmts |-> r.stmts,
   attempts |-> r.attempts, sleeps |-> r.sleeps, rollback |-> r.rollback,
   swallowed |-> r.swallowed, connects |-> r.connects, script |-> script,
   work |-> work]

\* logical transactions begun on the connection and not yet ended
Active(r) ==
  IF r.begins > 0 /\ r.conn.transaction_open THEN active + r.begins
  ELSE IF r.conn.transaction_open THEN active
  ELSE 0

Apply(op, r, script, work) ==
  /\ connection' = r.conn
  /\ last' = Record(op, connection, r, script, work)
  /\ active' = Active(r)
  /\ UNCHANGED <<credentials, diff>>

\* a connection as the manager creates it: not opened, its handle lazy
NewConnection == [state |-> "init", transaction_open |-> FALSE, handle |-> "lazy"]

\* credentials with keepalives_idle and application_name at their defaults
DefaultCredentials ==
  [retries : 0..MaxRetries, enable_transaction : BOOLEAN,
   keepalives_idle : {0}, application_name : {"dbt"}]

\* no materialized view is being compared
NoDiff ==
  [existing |-> [indexes |-> {}], new |-> [indexes |-> {}], done |-> FALSE,
   changes |-> {}, result |-> Absent]

Init ==
  /\ connection = NewConnection
  /\ credentials \in DefaultCredentials
  /\ diff = NoDiff
  /\ last = Record("new", connection, Result(connection, NoError, <<>>), <<>>, NoWork)
  /\ active = 0

\* outcomes are drawn only for the calls an operation can make: connect
\* attempts where the handle is lazy, statements where they are sent
ScriptsFor(used) == IF used THEN Scripts ELSE {<<>>}

StatementsFor(used) == IF used THEN StatementOutcomes ELSE {NoWork}

Open ==
  \E script \in Scripts :
    Apply("open", open(connection, credentials, script), script, NoWork)

Begin ==
  \E q1, q2 \in StatementOutcomes, rb \in RollbackOutcomes,
     script \in ScriptsFor(connection.state = "init") :
    LET r == begin(connection, credentials, q1, q2, script, rb)
    IN Apply("begin", r, Consumed(script, r), q2)

Commit ==
  \E q \in StatementOutcomes, rb \in RollbackOutcomes,
     script \in ScriptsFor(connection.state = "init") :
    LET r == commit(connection, credentials, q, script, rb)
    IN Apply("commit", r, Consumed(script, r), q)

\* one unit of work (a statement) run inside exception_handler
Execute ==
  \E work \in WorkOutcomes, rb \in RollbackOutcomes,
     script \in ScriptsFor(connection.state = "init") :
    LET h == handle(connection, credentials, script)
        r == add_query(connection, credentials, "SQL", work, script, rb)
    IN Apply("execute", r, Consumed(script, r), Work(h, work))

Cancel ==
  \E pid \in PidOutcomes :
    \E q1, q2 \in StatementsFor(pid = "pid" /\ ~connection.transaction_open),
       q3 \in StatementsFor(pid = "pid"), rb \in RollbackOutcomes,
       script \in ScriptsFor(connection.state = "init") :
      LET r == cancel(connection, credentials, pid, q1, q2, q3, script, rb)
      IN Apply("cancel", r, Consumed(script, r), [kind |-> pid, msg |-> <<>>])

\* the outcome of the rollback is drawn only where close rolls back
Close ==
  \E rb \in (IF connection.state = "open" /\ connection.transaction_open
             THEN CloseRollbackOutcomes ELSE {"ok"}) :
    Apply("close", close(connection, rb), <<>>, NoWork)

Next == Open \/ Begin \/ Commit \/ Execute \/ Cancel \/ Close

Spec == Init /\ [][Next]_vars

(***************************************************************************)
(* Opening and reopening a connection, for every keepalives_idle.         *)
(***************************************************************************)
KeepaliveCredentials ==
  [retries : 0..MaxRetries, enable_transaction : BOOLEAN,
   keepalives_idle : 0..MaxKeepalivesIdle, application_name : {"dbt"}]

KeepaliveInit ==
  /\ connection = NewConnection
  /\ credentials \in KeepaliveCredentials
  /\ diff = NoDiff
  /\ last = Record("new", connection, Result(connection, NoError, <<>>), <<>>, NoWork)
  /\ active = 0

KeepaliveNext == Open \/ Close

KeepaliveSpec == KeepaliveInit /\ [][KeepaliveNext]_vars

(***************************************************************************)
(* Opening with a retry budget large enough for three delays.             *)
(***************************************************************************)
BackoffCredentials ==
  [retries : 0..MaxBackoffRetries, enable_transaction : BOOLEAN,
   keepalives_idle : {0}, application_name : {"dbt"}]

BackoffInit ==
  /\ connection = NewConnection
  /\ credentials \in BackoffCredentials
  /\ diff = NoDiff
  /\ last = Record("new", connection, Result(connection, NoError, <<>>), <<>>, NoWork)
  /\ active = 0

BackoffNext == Open \/ Close

BackoffSpec == BackoffInit /\ [][BackoffNext]_vars

(***************************************************************************)
(* Comparing an existing materialized view with the one of the model.     *)
(***************************************************************************)
DiffInit ==
  /\ connection = NewConnection
  /\ credentials = [retries |-> 1, enable_transaction |-> TRUE,
                    keepalives_idle |-> 0, application_name |-> "dbt"]
  /\ last = Record("new", connection, Result(connection, NoError, <<>>), <<>>, NoWork)
  /\ active = 0
  /\ \E e \in SUBSET ExistingIndexConfigs, n \in SUBSET NewIndexConfigs :
       diff = [NoDiff EXCEPT !.existing = [indexes |-> e], !.new = [indexes |-> n]]

GetMaterializedViewConfigChangeCollection ==
  /\ ~diff.done
  /\ diff' = [diff EXCEPT
                !.done = TRUE,
                !.changes = get_index_config_changes(diff.existing.indexes, diff.new.indexes),
                !.result = get_materialized_view_config_change_collection(diff.existing, diff.new)]
  /\ UNCHANGED <<connection, credentials, last, active>>

DiffNext == GetMaterializedViewConfigChangeCollection

DiffSpec == DiffInit /\ [][DiffNext]_vars

(***************************************************************************)
(* Properties                                                              *)
(***************************************************************************)
Issued(sql) == \E i \in 1..Len(last.stmts) : last.stmts[i] = sql

Untouched ==
  /\ connection = last.pre
  /\ last.stmts = <<>>
  /\ last.attempts = 0
  /\ last.swallowed = <<>>
  /\ last.rollback = "none"

\* C1: begin() on a connection whose transaction is open, and commit() on a
\* connection with no transaction, raise DbtInternalError; nothing is sent,
\* retried or swallowed and the connection is left as it was.
C1_MisuseIsFatal ==
  /\ (last.op = "begin" /\ last.pre.transaction_open)
       => (last.err = "DbtInternalError" /\ Untouched)
  /\ (last.op = "commit" /\ ~last.pre.transaction_open)
       => (last.err = "DbtInternalError" /\ Untouched)

C1_Witness ==
  /\ last.op = "begin"
  /\ last.pre.transaction_open
  /\ last.err = "DbtInternalError"

\* C2: with enable_transaction false, begin() and commit() still move the
\* local flag (begin: false to true, commit: true to false) and neither BEGIN
\* nor COMMIT is ever handed to the database, by any operation.
C2_DisabledTransactionsAreLocal ==
  ~credentials.enable_transaction =>
    /\ ~Issued("BEGIN") /\ ~Issued("COMMIT")
    /\ (last.op = "begin" /\ ~last.pre.transaction_open)
         => /\ last.err = NoError
            /\ connection = [last.pre EXCEPT !.transaction_open = TRUE]
    /\ (last.op = "commit" /\ last.pre.transaction_open)
         => /\ last.err = NoError
            /\ connection = [last.pre EXCEPT !.transaction_open = FALSE]

C2_Witness ==
  /\ ~credentials.enable_transaction
  /\ last.op = "commit"
  /\ last.pre.transaction_open
  /\ ~connection.transaction_open
  /\ last.stmts = <<>>

\* C3: with enable_transaction set, begin() with no transaction open hands
\* the defensive COMMIT and then the BEGIN to the database, in that order and
\* whatever the COMMIT did; on an open connection the outcome of begin() is
\* the outcome of the BEGIN alone.
C3_DefensiveCommitThenBegin ==
  (credentials.enable_transaction /\ last.op = "begin" /\ ~last.pre.transaction_open) =>
    /\ last.stmts = <<"COMMIT", "BEGIN">>
    /\ last.pre.state = "open" =>
         /\ last.err = NoError <=> last.work.kind = "ok"
         /\ last.err = NoError => connection.transaction_open
         /\ last.err # NoError => ~connection.transaction_open

C3_Witness ==
  /\ credentials.enable_transaction
  /\ last.op = "begin"
  /\ last.pre.state = "open"
  /\ last.swallowed # <<>>
  /\ last.stmts = <<"COMMIT", "BEGIN">>
  /\ last.err = NoError
  /\ connection.transaction_open

C5_TransactionOnlyWhenOpen ==
  connection.transaction_open => connection.state = "open"

\* C6: a connection never holds two transactions at once: at most one
\* begin() succeeds between two ends of a transaction, and no operation that
\* starts with the transaction open hands a BEGIN to the database.
C6_NoOverlappingTransactions ==
  /\ active <= 1
  /\ connection.transaction_open => active = 1
  /\ last.pre.transaction_open => ~Issued("BEGIN")

C6_Witness ==
  /\ credentials.enable_transaction
  /\ last.op = "begin"
  /\ last.pre.transaction_open
  /\ connection.transaction_open
  /\ active = 1
  /\ last.stmts = <<>>

\* the first k connect attempts fail with the transient error, the next succeeds
TransientThenOk(script, k) ==
  /\ k + 1 <= Len(script)
  /\ \A i \in 1..k : script[i] = "OperationalError"
  /\ script[k + 1] = "ok"

\* C7: when the connect attempts of open() raise the transient error k times
\* in a row and then succeed, with k <= credentials.retries, open() leaves the
\* connection open after exactly k retries and raises nothing.
C7_RetriesUntilSuccess ==
  (last.op = "open" /\ last.pre.state # "open") =>
    \A k \in 0..credentials.retries :
      TransientThenOk(last.script, k) =>
        /\ connection.state = "open"
        /\ last.err = NoError
        /\ last.attempts = k + 1
        /\ Len(last.sleeps) = k

C7_Witness ==
  /\ last.op = "open"
  /\ last.pre.state # "open"
  /\ credentials.retries >= 2
  /\ TransientThenOk(last.script, 2)
  /\ connection.state = "open"
  /\ last.attempts = 3

\* C8: open() makes a further connect attempt only after the transient error;
\* any other error ends it at that attempt; it makes at most
\* credentials.retries retries; when every attempt of the budget fails with
\* the transient error it raises FailedToConnectError and the connection is
\* not open.
C8_OnlyTransientRetried ==
  (last.op = "open" /\ last.pre.state # "open") =>
    /\ last.attempts >= 1
    /\ last.attempts - 1 <= credentials.retries
    /\ Len(last.sleeps) = last.attempts - 1
    /\ \A i \in 1..(last.attempts - 1) : last.script[i] = "OperationalError"
    /\ last.script[last.attempts] = "Error" =>
         (last.err = "FailedToConnectError" /\ connection.state = "fail")
    /\ (\A i \in 1..(credentials.retries + 1) : last.script[i] = "OperationalError") =>
         /\ last.err = "FailedToConnectError"
         /\ connection.state = "fail"
         /\ last.attempts = credentials.retries + 1

C8_Witness ==
  /\ last.op = "open"
  /\ credentials.retries >= 1
  /\ \A i \in 1..(credentials.retries + 1) : last.script[i] = "OperationalError"
  /\ last.err = "FailedToConnectError"
  /\ connection.state # "open"

\* C9: open() on a connection whose state is open returns it unchanged and
\* makes no connect attempt; no operation makes a connect attempt on a
\* connection that is open.
C9_OpenIsIdempotent ==
  /\ (last.op = "open" /\ last.pre.state = "open")
       => (last.err = NoError /\ Untouched /\ last.sleeps = <<>>)
  /\ last.pre.state = "open" => (last.attempts = 0 /\ last.sleeps = <<>>)

C9_Witness ==
  /\ last.op = "open"
  /\ last.pre.state = "open"
  /\ connection = last.pre
  /\ last.attempts = 0

AllWhitespace(s) == \A i \in 1..Len(s) : s[i] \in Whitespace

\* m is s without its leading and trailing whitespace
IsTrimOf(m, s) ==
  /\ m = <<>> \/ (m[1] \notin Whitespace /\ m[Len(m)] \notin Whitespace)
  /\ \E i \in 0..Len(s) :
       /\ i + Len(m) <= Len(s)
       /\ m = SubSeq(s, i + 1, i + Len(m))
       /\ AllWhitespace(SubSeq(s, 1, i))
       /\ AllWhitespace(SubSeq(s, i + Len(m) + 1, Len(s)))

\* the rollback attempt of the last operation raised
RollbackRaised == last.rollback \in {"raise", "raise Exception"}

GenericFailure ==
  /\ last.op = "execute"
  /\ last.work.kind \notin {"ok", "DatabaseError"}

\* C11: when the unit of work raises a non-database error, the wrapper
\* rolls back first if a transaction is open; an error raised by that
\* rollback propagates in place of the original; otherwise an error of the
\* adapter's runtime-error kinds is raised again with its type and message,
\* and any other error is raised as DbtRuntimeError.
C11_GenericErrorTranslated ==
  GenericFailure =>
    /\ (last.pre.transaction_open /\ HandleTruthy(connection)) => last.rollback # "none"
    /\ last.swallowed = <<>>
    /\ last.rollback = "raise" => last.err = "psycopg2.Error"
    /\ last.rollback = "raise Exception" => last.err = "Exception"
    /\ RollbackRaised => connection.transaction_open = last.pre.transaction_open
    /\ ~RollbackRaised =>
         /\ last.msg = last.work.msg
         /\ last.work.kind \in DbtRuntimeErrorKinds => last.err = last.work.kind
         /\ last.work.kind \notin DbtRuntimeErrorKinds => last.err = "DbtRuntimeError"

C11_Witness ==
  /\ GenericFailure
  /\ last.work.kind = "DbtDatabaseError"
  /\ last.rollback = "ok"
  /\ last.err = "DbtDatabaseError"
  /\ last.msg = <<"e", "\n">>
  /\ ~connection.transaction_open

\* C12: after the wrapper exits with an error the connection has no open
\* transaction, except when the rollback raised in the generic-error path.
C12_NoOrphanedTransaction ==
  (last.op = "execute" /\ last.err # NoError) =>
    \/ ~connection.transaction_open
    \/ (GenericFailure /\ RollbackRaised)

\* C13 as stated: cancel() never raises.
C13_CancelNeverRaises ==
  last.op = "cancel" => last.err = NoError

\* C13 amended: cancel() drops every failure of the termination request
\* (the begin() it makes first and the termination statement) and returns
\* quietly when the backend pid lookup fails with an InterfaceError saying
\* "already closed"; any other failure of the pid lookup propagates, and
\* nothing has been done to the connection then.
C13_CancelSwallowsTermination ==
  last.op = "cancel" =>
    /\ last.work.kind \in {"pid", "already closed"} => last.err = NoError
    /\ last.work.kind \in {"InterfaceError", "Exception"} =>
         (last.err = last.work.kind /\ Untouched)
    /\ last.work.kind = "already closed" => Untouched
    /\ last.work.kind = "pid" => Issued("TERMINATE") \/ last.swallowed # <<>>

C13_Witness ==
  /\ last.op = "cancel"
  /\ last.work.kind = "pid"
  /\ Issued("TERMINATE")
  /\ last.swallowed = <<"DbtDatabaseError">>
  /\ last.err = NoError

\* the statement sent by begin() or commit() failed on an open connection
StatementFailed(op) ==
  /\ credentials.enable_transaction
  /\ last.op = op
  /\ last.pre.state = "open"
  /\ last.work.kind # "ok"

\* C19 as stated: with enable_transaction set, a BEGIN that fails leaves
\* transaction_open false and a COMMIT that fails leaves it true; the error
\* propagates.
C19_FailedStatementKeepsState ==
  /\ (StatementFailed("begin") /\ ~last.pre.transaction_open)
       => (last.err # NoError /\ ~connection.transaction_open)
  /\ (StatementFailed("commit") /\ last.pre.transaction_open)
       => (last.err # NoError /\ connection.transaction_open)

\* C19 amended: with enable_transaction set, a BEGIN that fails leaves
\* transaction_open false and the error propagates; a COMMIT that fails
\* propagates too and commit() does not reach its own reset, but the
\* statement ran inside exception_handler, which attempted the rollback:
\* transaction_open stays true only if that rollback raised, and is false
\* otherwise; the error that leaves commit() is DbtDatabaseError, or the
\* error of the rollback when that one is not a psycopg2.Error.
C19_FailedStatementRollsBack ==
  /\ (StatementFailed("begin") /\ ~last.pre.transaction_open)
       => /\ last.err = "DbtDatabaseError"
          /\ connection = last.pre
          /\ last.rollback = "none"
  /\ (StatementFailed("commit") /\ last.pre.transaction_open)
       => /\ last.err = IF last.rollback = "raise Exception"
                        THEN "Exception" ELSE "DbtDatabaseError"
          /\ connection.state = last.pre.state
          /\ last.rollback # "none"
          /\ connection.transaction_open <=> RollbackRaised

C19_Witness ==
  /\ StatementFailed("commit")
  /\ last.pre.transaction_open
  /\ last.err = "DbtDatabaseError"
  /\ last.rollback = "ok"
  /\ ~connection.transaction_open

\* C18: every delay open() computes is n * n, n being the attempt number
\* handed to exponential_backoff: the number of connect attempts made before
\* the one whose failure is followed by the delay (0 for the first).
C18_BackoffIsSquare ==
  last.op = "open" =>
    \A i \in 1..Len(last.sleeps) : last.sleeps[i] = (i - 1) * (i - 1)

C18_Witness ==
  /\ last.op = "open"
  /\ last.sleeps = <<0, 1, 4>>

\* C17: with keepalives_idle = 0 no psycopg2.connect call, first attempt or
\* retry, is given a keepalives_idle option; with another value every call
\* is given it with that value.
C17_KeepaliveOmittedWhenZero ==
  /\ Len(last.connects) = last.attempts
  /\ \A i \in 1..Len(last.connects) :
       IF credentials.keepalives_idle = 0
       THEN "keepalives_idle" \notin DOMAIN last.connects[i]
       ELSE /\ "keepalives_idle" \in DOMAIN last.connects[i]
            /\ last.connects[i]["keepalives_idle"] = credentials.keepalives_idle

C17_Witness ==
  /\ credentials.keepalives_idle = 0
  /\ last.op = "open"
  /\ last.attempts >= 2
  /\ DOMAIN last.connects[2] = {"application_name"}

(***************************************************************************)
(* Properties of the index diff                                            *)
(***************************************************************************)
Existing == diff.existing.indexes

Desired == diff.new.indexes

In(index, S) == \E other \in S : same_index(index, other)

StructurallyEqual(A, B) ==
  /\ \A a \in A : In(a, B)
  /\ \A b \in B : In(b, A)

Drops == {ch \in diff.changes : ch.action = "drop"}

Creates == {ch \in diff.changes : ch.action = "create"}

\* C14: the changes are exactly one drop per existing index that is not
\* among the desired ones and one create per desired index that is not among
\* the existing ones; an index of both sets gets no change.
C14_ChangesAreTheTwoDifferences ==
  diff.done =>
    /\ \A i \in Existing : (IndexConfigChange("drop", i) \in diff.changes) <=> ~In(i, Desired)
    /\ \A j \in Desired : (IndexConfigChange("create", j) \in diff.changes) <=> ~In(j, Existing)
    /\ \A ch \in Drops : ch.context \in Existing
    /\ \A ch \in Creates : ch.context \in Desired
    /\ diff.changes = Drops \cup Creates
    /\ Cardinality(diff.changes) =
         Cardinality({i \in Existing : ~In(i, Desired)})
           + Cardinality({j \in Desired : ~In(j, Existing)})

C14_Witness ==
  /\ diff.done
  /\ \E i \in Existing : In(i, Desired)
  /\ Cardinality(Drops) = 1
  /\ Cardinality(Creates) = 1
  /\ Cardinality(Existing) = 2

\* C15: the comparison returns nothing exactly when the two index sets are
\* structurally equal, and a collection it returns has at least one change.
C15_AbsentIffEqual ==
  diff.done =>
    /\ ~diff.result.present <=> StructurallyEqual(Existing, Desired)
    /\ diff.result.present => (diff.result.indexes # {} /\ diff.result.indexes = diff.changes)
    /\ ~diff.result.present => diff.result = Absent

C15_Witness ==
  /\ diff.done
  /\ Cardinality(Existing) = 2
  /\ StructurallyEqual(Existing, Desired)
  /\ ~diff.result.present

\* C16: when the one index on some columns is unique in one snapshot and not
\* in the other, the changes hold a drop of the existing index and a create
\* of the desired one; every change is a create or a drop.
C16_ChangedIndexIsDroppedAndCreated ==
  diff.done =>
    /\ \A ch \in diff.changes : ch.action \in {"create", "drop"}
    /\ \A i \in Existing, j \in Desired :
         ( /\ i.columns = j.columns
           /\ i.unique # j.unique
           /\ ~In(i, Desired)
           /\ ~In(j, Existing) )
         => /\ IndexConfigChange("drop", i) \in diff.changes
            /\ IndexConfigChange("create", j) \in diff.changes

C16_Witness ==
  /\ diff.done
  /\ \E i \in Existing, j \in Desired :
       /\ Existing = {i} /\ Desired = {j}
       /\ i.columns = j.columns
       /\ ~i.unique /\ j.unique
       /\ diff.changes = {IndexConfigChange("drop", i), IndexConfigChange("create", j)}

\* the existing indexes after every drop and every create of the changes
Applied ==
  {i \in Existing : \A ch \in Drops : ~same_index(ch.context, i)}
    \cup {ch.context : ch \in Creates}

\* C20: dropping the context of every drop from the existing indexes and
\* adding the context of every create gives the desired indexes, and no
\* index is both dropped and created.
C20_PlanReachesDesired ==
  diff.done =>
    /\ StructurallyEqual(Applied, Desired)
    /\ Cardinality(Applied) = Cardinality(Desired)
    /\ \A d \in Drops, c \in Creates : ~same_index(d.context, c.context)

C20_Witness ==
  /\ diff.done
  /\ Drops # {}
  /\ Creates # {}
  /\ \E i \in Existing : In(i, Desired)
  /\ StructurallyEqual(Applied, Desired)

====
